---- MODULE Spec2Model ----
(***************************************************************************)
(* A model of the two proxy-client drivers of m1n1,                        *)
(*   proxyclient/tools/chainload.py  (Mach-O relocation and handoff)       *)
(*   proxyclient/tools/run_guest.py  (hypervisor guest session)            *)
(* and of the relocation stub that chainload.py assembles and hands        *)
(* control to.  Every driver is a straight-line script, so its state is    *)
(* its program counter, its local variables and the effects it has had on  *)
(* the device, recorded as the sequence of operations it issued.           *)
(***************************************************************************)
EXTENDS Integers, Sequences, FiniteSets, TLC

VARIABLES prog, pc, args, host, dev, trace, cpu

vars == <<prog, pc, args, host, dev, trace, cpu>>

(***************************************************************************)
(* Bounds of the model.                                                    *)
(***************************************************************************)
\* len(image) and the SEPFW length range over 0..MaxLen
MaxLen == 3
\* the alignments tried are 2^0 .. 2^MaxAlignLog
MaxAlignLog == 2
\* u.adt["cpus"] holds 1..MaxCpus core descriptors
MaxCpus == 3
\* run_guest gets 0..MaxItems scripts and 0..MaxItems commands
MaxItems == 2
\* A register of the stub is 64 bits wide; the model keeps the wrap-around
\* arithmetic and narrows the word to RegBits bits.
RegBits == 6

(***************************************************************************)
(* Program constants.                                                      *)
(***************************************************************************)
\* chainload.py:39
bootargs_size == 16384
\* chainload.py:58, the 0xfff of  entry & ~0xfff
PageMask == 4095
\* chainload.py:85-86: 0xfffffff007004000 - 0xfffffe0007004000 = 31 * 2^36.
\* A 64-bit virtual address is carried as <<hi, lo>> with value hi * 2^36 + lo,
\* so that adding the shift is exact: hi + 31, lo unchanged.
KernelVirtShiftHi == 31
\* the post-index of ldp and the immediates of add/sub in the stub
StubStep == 8

Undef == 0 - 1

RECURSIVE Pow2(_)
Pow2(n) == IF n = 0 THEN 1 ELSE 2 * Pow2(n - 1)

Max(a, b) == IF a >= b THEN a ELSE b

(***************************************************************************)
(* Inputs.                                                                 *)
(***************************************************************************)
\* u.base, the address the running m1n1 was loaded at
Bases == {65536, 147456}
\* macho.entry - macho.vmin
EntryOffs == {4096, 6148}
\* the address u.malloc hands out (the proxy heap lies above the image)
HeapAddrs == {1048576}
\* top_of_kernel_data of the boot arguments the device was started with:
\* below the end of the new image; between the ends the two bases give
TemplateTops == {0, 100000}
\* the address of the SEP firmware the boot loader left in memory
SepfwStarts == {524288}
Aligns == {Pow2(k) : k \in 0..MaxAlignLog}

\* command-line tokens are sequences of characters
TokV == <<"-", "v">>
TokX == <<"x">>
TokXV == <<"x", " ", "-", "v">>
BootArgChoices == {<<>>, <<TokV>>, <<TokX>>, <<TokXV>>}

(***************************************************************************)
(* chainload.py: pure helpers.                                             *)
(***************************************************************************)
\* m1n1.utils.align: v rounded up to the next multiple of a
align(v, a) == ((v + a - 1) \div a) * a

\* Layout with the firmware length added unaligned
Layout_Unaligned(imageLen, sepfwLen, a) ==
    LET size1 == align(imageLen, a)
        size2 == size1 + sepfwLen
    IN  [sepfw_off    |-> size1,
         bootargs_off |-> size2,
         image_size   |-> size2 + bootargs_size]

\* lines 35-40: the running offset image_size and the offsets taken from it
Layout(imageLen, sepfwLen, a) ==
    LET size1 == align(imageLen, a)
        size2 == size1 + align(sepfwLen, a)
    IN  [sepfw_off    |-> size1,
         bootargs_off |-> size2,
         image_size   |-> size2 + bootargs_size]

\* lines 26-28
RelocatedEntry(off, base) == off + base

\* Rvbar without the mask
Rvbar_Unmasked(e) == e

\* line 58: entry & ~0xfff, for the non-negative integer entry
Rvbar(e) == e - (e % (PageMask + 1))

\* lines 53-54
AdtPatch(h) ==
    [SEPFW    |-> <<h.new_base + h.sepfw_off, h.sepfw_length>>,
     BootArgs |-> <<h.image_addr + h.bootargs_off, bootargs_size>>]

\* TopOfKernelData without the max of line 73
TopOfKernelData_NoMax(xnu, cur, end) == end

\* lines 69-73
TopOfKernelData(xnu, cur, end) == IF xnu THEN end ELSE Max(cur, end)

\* line 76: " ".join(args.boot_args)
RECURSIVE Join(_)
Join(toks) ==
    IF toks = <<>> THEN <<>>
    ELSE IF Len(toks) = 1 THEN toks[1]
    ELSE toks[1] \o <<" ">> \o Join(Tail(toks))

\* line 77: str.split() with no separator: maximal runs of non-blanks
RECURSIVE SplitAcc(_, _, _)
SplitAcc(s, cur, acc) ==
    LET flushed == IF cur = <<>> THEN acc ELSE Append(acc, cur)
    IN  IF s = <<>> THEN flushed
        ELSE IF Head(s) = " " THEN SplitAcc(Tail(s), <<>>, flushed)
        ELSE SplitAcc(Tail(s), Append(cur, Head(s)), acc)

Split(s) == SplitAcc(s, <<>>, <<>>)

\* VideoDisplay with the two values exchanged
VideoDisplay_Exchanged(boot_args) ==
    IF \E i \in 1..Len(Split(boot_args)) : Split(boot_args)[i] = TokV THEN 1 ELSE 0

\* lines 77-80
VideoDisplay(boot_args) ==
    IF \E i \in 1..Len(Split(boot_args)) : Split(boot_args)[i] = TokV THEN 0 ELSE 1

\* lines 85-86
AddVirtShift(v) == <<v[1] + KernelVirtShiftHi, v[2]>>

\* lines 67-86 on the fields of the copy; tba.video is dealt with in
\* BuildBootArgs, because the nested object is not part of the copy
BuildTba(uba, xnu, toks, end) ==
    LET t1 == [uba EXCEPT !.top_of_kernel_data = TopOfKernelData(xnu, @, end)]
        t2 == IF Len(toks) > 0 THEN [t1 EXCEPT !.cmdline = Join(toks)] ELSE t1
    IN  [t2 EXCEPT !.virt_base = AddVirtShift(@), !.devtree = AddVirtShift(@)]

\* lines 119 and 122: the stub address followed by the four arguments
HandoffArgs(h) ==
    <<h.stub.addr, h.new_base + h.bootargs_off, h.image_addr, h.new_base, h.image_size>>

\* AfterProxyOp with the exception swallowed
AfterProxyOp_Swallowed(res, next) == next

\* An exception raised by a proxy operation is not caught anywhere but at
\* line 116, so it ends the script.
AfterProxyOp(res, next) == IF res = "ok" THEN next ELSE "error"

\* AfterMmuShutdown without the try/except
AfterMmuShutdown_Uncaught(res) == IF res = "ok" THEN "call" ELSE "error"

\* lines 114-117: ProxyCommandError is swallowed, anything else propagates
AfterMmuShutdown(res) == IF res \in {"ok", "ProxyCommandError"} THEN "call" ELSE "error"

\* HandoffPc with the branches exchanged
HandoffPc_Swapped(call) == IF call THEN "reload" ELSE "mmu_shutdown"

\* lines 112, 120
HandoffPc(call) == IF call THEN "mmu_shutdown" ELSE "reload"

\* AfterImage with the test of line 49 dropped
AfterImage_AlwaysXnu(xnu) == "copy_sepfw"

\* lines 49, 66
AfterImage(xnu) == IF xnu THEN "copy_sepfw" ELSE "build_ba"

Results == {"ok", "error"}

Ev(op, x, res) == [op |-> op, x |-> x, res |-> res]

Issue(op, x, res) == trace' = Append(trace, Ev(op, x, res))

\* cpu.cpu_impl_reg[0] of the n-th core descriptor
CpuImplReg(n) == 2048 * n

\* u.ba as read from the device; the nested video object is kept apart
BootArgsTemplate(top) ==
    [top_of_kernel_data |-> top,
     cmdline            |-> <<>>,
     virt_base          |-> <<268435424, 117456896>>,
     devtree            |-> <<268435424, 134217728>>]

\* the device tree's memory-map as the boot loader left it
AdtAsBooted(start, len) ==
    [SEPFW |-> <<start, len>>, BootArgs |-> <<32768, bootargs_size>>]

NoStub == [addr |-> Undef, len |-> Undef, entry |-> Undef]

\* nine A64 instructions and the 8-byte literal of ldr x1, =entry
StubLen == 48

ChainloadLocals ==
    [image_len |-> Undef, new_base |-> Undef, entry |-> Undef,
     sepfw_start |-> Undef, sepfw_length |-> Undef, align |-> Undef,
     sepfw_off |-> Undef, bootargs_off |-> Undef, image_size |-> Undef,
     image_addr |-> Undef, adt |-> AdtAsBooted(0, 0), cpus |-> <<>>, i |-> Undef,
     rvbar |-> Undef, uba |-> BootArgsTemplate(0), ba_video |-> [display |-> Undef],
     video_read |-> [display |-> Undef],
     tba |-> BootArgsTemplate(0), stub |-> NoStub]

DeviceAsBooted == [adt |-> <<>>, bootargs |-> <<>>]

CpuIdle == [pc |-> "off"]

InitChainload ==
    /\ prog = "chainload"
    /\ pc = "load"
    /\ args \in [xnu : BOOLEAN, call : BOOLEAN, boot_args : BootArgChoices]
    /\ host = ChainloadLocals
    /\ dev = DeviceAsBooted
    /\ trace = <<>>
    /\ cpu = CpuIdle

(***************************************************************************)
(* chainload.py: the script, one action per statement that talks to the    *)
(* device and one per block of host-side statements between them.          *)
(***************************************************************************)
\* lines 20-28
LoadMachO ==
    /\ prog = "chainload" /\ pc = "load"
    /\ \E n \in 0..MaxLen, b \in Bases, e \in EntryOffs :
         host' = [host EXCEPT !.image_len = n, !.new_base = b,
                              !.entry = RelocatedEntry(e, b)]
    /\ pc' = "plan"
    /\ UNCHANGED <<prog, args, dev, trace, cpu>>

\* lines 30-40
PlanLayout ==
    /\ prog = "chainload" /\ pc = "plan"
    /\ \E a \in Aligns, s \in SepfwStarts, l \in 0..MaxLen :
         LET sep == IF args.xnu THEN <<s, l>> ELSE <<0, 0>>
             lay == Layout(host.image_len, sep[2], a)
         IN  host' = [host EXCEPT !.align = a,
                                  !.adt = IF args.xnu THEN AdtAsBooted(s, l) ELSE @,
                                  !.sepfw_start = sep[1], !.sepfw_length = sep[2],
                                  !.sepfw_off = lay.sepfw_off,
                                  !.bootargs_off = lay.bootargs_off,
                                  !.image_size = lay.image_size]
    /\ pc' = "malloc"
    /\ UNCHANGED <<prog, args, dev, trace, cpu>>

\* line 43
Malloc ==
    /\ prog = "chainload" /\ pc = "malloc"
    /\ \E addr \in HeapAddrs, res \in Results :
         /\ Issue("malloc", <<host.image_size>>, res)
         /\ host' = IF res = "ok" THEN [host EXCEPT !.image_addr = addr] ELSE host
         /\ pc' = AfterProxyOp(res, "write_image")
    /\ UNCHANGED <<prog, args, dev, cpu>>

\* line 46
WriteImage ==
    /\ prog = "chainload" /\ pc = "write_image"
    /\ \E res \in Results :
         /\ Issue("compressed_writemem", <<host.image_addr, host.image_len>>, res)
         /\ pc' = AfterProxyOp(res, "clean_image")
    /\ UNCHANGED <<prog, args, host, dev, cpu>>

\* line 47
CleanImage ==
    /\ prog = "chainload" /\ pc = "clean_image"
    /\ \E res \in Results :
         /\ Issue("dc_cvau", <<host.image_addr, host.image_len>>, res)
         /\ pc' = AfterProxyOp(res, AfterImage(args.xnu))
    /\ UNCHANGED <<prog, args, host, dev, cpu>>

\* line 51
CopySepfw ==
    /\ prog = "chainload" /\ pc = "copy_sepfw"
    /\ \E res \in Results :
         /\ Issue("memcpy8", <<host.image_addr + host.sepfw_off, host.sepfw_start,
                               host.sepfw_length>>, res)
         /\ pc' = AfterProxyOp(res, "adjust_adt")
    /\ UNCHANGED <<prog, args, host, dev, cpu>>

\* lines 53-59: the two memory-map edits, rvbar, and the head of the loop
AdjustADT ==
    /\ prog = "chainload" /\ pc = "adjust_adt"
    /\ \E n \in 1..MaxCpus :
         /\ host' = [host EXCEPT !.adt = AdtPatch(host),
                                 !.rvbar = Rvbar(host.entry),
                                 !.cpus = [k \in 1..n |-> CpuImplReg(k)],
                                 !.i = 2]
         /\ pc' = IF n >= 2 THEN "write_rvbar" ELSE "push_adt"
    /\ trace' = trace \o <<Ev("adt_set_SEPFW", AdtPatch(host).SEPFW, "ok"),
                           Ev("adt_set_BootArgs", AdtPatch(host).BootArgs, "ok")>>
    /\ UNCHANGED <<prog, args, dev, cpu>>

\* WriteRvbar leaving the loop after its first pass
WriteRvbar_OnePass ==
    /\ prog = "chainload" /\ pc = "write_rvbar"
    /\ \E res \in Results :
         /\ Issue("write64", <<host.cpus[host.i], host.rvbar>>, res)
         /\ host' = IF res = "ok" THEN [host EXCEPT !.i = @ + 1] ELSE host
         /\ pc' = AfterProxyOp(res, "push_adt")
    /\ UNCHANGED <<prog, args, dev, cpu>>

\* lines 59-62: one pass of the loop body
WriteRvbar ==
    /\ prog = "chainload" /\ pc = "write_rvbar"
    /\ \E res \in Results :
         /\ Issue("write64", <<host.cpus[host.i], host.rvbar>>, res)
         /\ host' = IF res = "ok" THEN [host EXCEPT !.i = @ + 1] ELSE host
         /\ pc' = AfterProxyOp(res, IF host.i + 1 > Len(host.cpus)
                                    THEN "push_adt" ELSE "write_rvbar")
    /\ UNCHANGED <<prog, args, dev, cpu>>

\* line 64
PushADT ==
    /\ prog = "chainload" /\ pc = "push_adt"
    /\ \E res \in Results :
         /\ Issue("push_adt", <<>>, res)
         /\ dev' = IF res = "ok" THEN [dev EXCEPT !.adt = Append(@, host.adt)] ELSE dev
         /\ pc' = AfterProxyOp(res, "build_ba")
    /\ UNCHANGED <<prog, args, host, cpu>>

\* lines 67-86.  u.ba.copy() copies the fields of u.ba, so tba.video is
\* the object u.ba.video: ba_video is that one object, and video_read keeps
\* what it held when u.ba was read from the device.
BuildBootArgs ==
    /\ prog = "chainload" /\ pc = "build_ba"
    /\ \E top \in TemplateTops, d \in {0, 1} :
         host' = [host EXCEPT
                    !.uba = BootArgsTemplate(top),
                    !.video_read = [display |-> d],
                    !.tba = BuildTba(BootArgsTemplate(top), args.xnu, args.boot_args,
                                     host.new_base + host.image_size),
                    !.ba_video = IF Len(args.boot_args) > 0
                                 THEN [display |-> VideoDisplay(Join(args.boot_args))]
                                 ELSE [display |-> d]]
    /\ pc' = "write_ba"
    /\ UNCHANGED <<prog, args, dev, trace, cpu>>

\* line 88
WriteBootArgs ==
    /\ prog = "chainload" /\ pc = "write_ba"
    /\ \E res \in Results :
         /\ Issue("writemem", <<host.image_addr + host.bootargs_off>>, res)
         /\ dev' = IF res = "ok"
                   THEN [dev EXCEPT !.bootargs =
                           Append(@, [ba |-> host.tba, video |-> host.ba_video])]
                   ELSE dev
         /\ pc' = AfterProxyOp(res, "asm_stub")
    /\ UNCHANGED <<prog, args, host, cpu>>

\* lines 92-104
AssembleStub ==
    /\ prog = "chainload" /\ pc = "asm_stub"
    /\ host' = [host EXCEPT !.stub = [addr  |-> host.image_addr + host.image_size,
                                      len   |-> StubLen,
                                      entry |-> host.entry]]
    /\ pc' = "write_stub"
    /\ UNCHANGED <<prog, args, dev, trace, cpu>>

\* line 106
WriteStub ==
    /\ prog = "chainload" /\ pc = "write_stub"
    /\ \E res \in Results :
         /\ Issue("writemem", <<host.stub.addr, host.stub.len>>, res)
         /\ pc' = AfterProxyOp(res, "clean_stub")
    /\ UNCHANGED <<prog, args, host, dev, cpu>>

\* line 107
CleanStub ==
    /\ prog = "chainload" /\ pc = "clean_stub"
    /\ \E res \in Results :
         /\ Issue("dc_cvau", <<host.stub.addr, host.stub.len>>, res)
         /\ pc' = AfterProxyOp(res, "inval_stub")
    /\ UNCHANGED <<prog, args, host, dev, cpu>>

\* InvalStub without the ic_ivau of line 108
InvalStub_Omitted ==
    /\ prog = "chainload" /\ pc = "inval_stub"
    /\ pc' = HandoffPc(args.call)
    /\ UNCHANGED <<prog, args, host, dev, trace, cpu>>

\* line 108, and the branch of line 112
InvalStub ==
    /\ prog = "chainload" /\ pc = "inval_stub"
    /\ \E res \in Results :
         /\ Issue("ic_ivau", <<host.stub.addr, host.stub.len>>, res)
         /\ pc' = AfterProxyOp(res, HandoffPc(args.call))
    /\ UNCHANGED <<prog, args, host, dev, cpu>>

\* lines 114-117
MmuShutdown ==
    /\ prog = "chainload" /\ pc = "mmu_shutdown"
    /\ \E res \in {"ok", "ProxyCommandError", "error"} :
         /\ Issue("mmu_shutdown", <<>>, res)
         /\ pc' = AfterMmuShutdown(res)
    /\ UNCHANGED <<prog, args, host, dev, cpu>>

\* line 119
Call ==
    /\ prog = "chainload" /\ pc = "call"
    /\ \E res \in Results :
         /\ trace' = Append(trace, [op |-> "call", x |-> HandoffArgs(host), res |-> res,
                                    reboot |-> TRUE])
         /\ pc' = AfterProxyOp(res, "nop")
    /\ UNCHANGED <<prog, args, host, dev, cpu>>

\* line 122
Reload ==
    /\ prog = "chainload" /\ pc = "reload"
    /\ \E res \in Results :
         /\ Issue("reload", HandoffArgs(host), res)
         /\ pc' = AfterProxyOp(res, "nop")
    /\ UNCHANGED <<prog, args, host, dev, cpu>>

\* line 124
Nop ==
    /\ prog = "chainload" /\ pc = "nop"
    /\ \E res \in Results :
         /\ Issue("nop", <<>>, res)
         /\ pc' = AfterProxyOp(res, "done")
    /\ UNCHANGED <<prog, args, host, dev, cpu>>

(***************************************************************************)
(* run_guest.py.                                                           *)
(***************************************************************************)
InitRunGuest ==
    /\ prog = "run_guest"
    /\ pc = "setup"
    /\ args \in [script : 0..MaxItems, command : 0..MaxItems, shell : BOOLEAN]
    /\ host = [shell |-> args.shell, si |-> 1, ci |-> 1]
    /\ dev = DeviceAsBooted
    /\ trace = <<>>
    /\ cpu = CpuIdle

\* line 53: the head of  for i in args.command
CommandPc(j) == IF j <= args.command THEN "command" ELSE "final"

\* line 46: the head of  for i in args.script
ScriptPc(i) == IF i <= args.script THEN "script" ELSE CommandPc(1)

\* ShellAfter with the flag following the last item only
ShellAfter_LastOnly(shell, res) == IF res = "ok" THEN FALSE ELSE TRUE

\* lines 49-51 and 56-58: the bare except sets args.shell and goes on
ShellAfter(shell, res) == IF res = "ok" THEN shell ELSE TRUE

\* FinalStep with the test of line 60 dropped
FinalStep_AlwaysStart(shell) == "hv_start"

\* lines 60-63
FinalStep(shell) == IF shell THEN "run_shell" ELSE "hv_start"

\* lines 23-44: transport, proxy, hypervisor, blobs and payload
GuestSetup ==
    /\ prog = "run_guest" /\ pc = "setup"
    /\ \E res \in Results :
         /\ Issue("setup", <<>>, res)
         /\ pc' = AfterProxyOp(res, ScriptPc(1))
    /\ UNCHANGED <<prog, args, host, dev, cpu>>

\* lines 46-51: one pass of the loop body
RunScript ==
    /\ prog = "run_guest" /\ pc = "script"
    /\ \E res \in Results :
         /\ Issue("run_script", <<host.si>>, res)
         /\ host' = [host EXCEPT !.shell = ShellAfter(@, res), !.si = @ + 1]
    /\ pc' = ScriptPc(host.si + 1)
    /\ UNCHANGED <<prog, args, dev, cpu>>

\* lines 53-58: one pass of the loop body
RunCommand ==
    /\ prog = "run_guest" /\ pc = "command"
    /\ \E res \in Results :
         /\ Issue("run_code", <<host.ci>>, res)
         /\ host' = [host EXCEPT !.shell = ShellAfter(@, res), !.ci = @ + 1]
    /\ pc' = CommandPc(host.ci + 1)
    /\ UNCHANGED <<prog, args, dev, cpu>>

\* line 61
RunShell ==
    /\ prog = "run_guest" /\ pc = "final"
    /\ FinalStep(host.shell) = "run_shell"
    /\ \E res \in Results :
         /\ Issue("run_shell", <<>>, res)
         /\ pc' = AfterProxyOp(res, "done")
    /\ UNCHANGED <<prog, args, host, dev, cpu>>

\* line 63
HvStart ==
    /\ prog = "run_guest" /\ pc = "final"
    /\ FinalStep(host.shell) = "hv_start"
    /\ \E res \in Results :
         /\ Issue("hv_start", <<>>, res)
         /\ pc' = AfterProxyOp(res, "done")
    /\ UNCHANGED <<prog, args, host, dev, cpu>>

(***************************************************************************)
(* The relocation stub of chainload.py lines 92-104, run on the device     *)
(* with x1 = source, x2 = destination, x3 = remaining bytes.  Memory is an *)
(* array of 64-bit words; addresses are byte addresses, 8-aligned.         *)
(***************************************************************************)
WordSpace == Pow2(RegBits)

Wrap(v) == v % WordSpace

WordAt(m, a) == m[Wrap(a) \div 8]

MemAsStaged == [k \in 0..(WordSpace \div 8 - 1) |-> 100 + k]

StubSrcs == {0, 8}
StubDsts == {WordSpace \div 2}
StubCounts == {0, 8, 16, 24}
\* the literal of line 102 is the entry of lines 26-28
StubEntries == {RelocatedEntry(e, b) : e \in EntryOffs, b \in Bases}

InitStub ==
    /\ prog = "stub"
    /\ pc = "device"
    /\ args = <<>>
    /\ host = <<>>
    /\ dev = DeviceAsBooted
    /\ trace = <<>>
    /\ \E s \in StubSrcs, d \in StubDsts, n \in StubCounts, e \in StubEntries :
         cpu = [pc |-> "ldp", x1 |-> s, x2 |-> d, x3 |-> n, x4 |-> 0, x5 |-> 0,
                mem |-> MemAsStaged, entry |-> e, iters |-> 0,
                dc |-> {}, ic |-> {}, target |-> Undef,
                src0 |-> s, dst0 |-> d, count0 |-> n]

StubInsn(at) == prog = "stub" /\ cpu.pc = at /\ UNCHANGED <<prog, pc, args, host, dev, trace>>

\* CbnzTarget of a cbz
CbnzTarget_Cbz(x3) == IF x3 = 0 THEN "ldp" ELSE "ldr"

\* line 100: cbnz x3, 1b
CbnzTarget(x3) == IF x3 # 0 THEN "ldp" ELSE "ldr"

\* line 94: ldp x4, x5, [x1], #8
Ldp ==
    /\ StubInsn("ldp")
    /\ cpu' = [cpu EXCEPT !.x4 = WordAt(cpu.mem, cpu.x1),
                          !.x5 = WordAt(cpu.mem, cpu.x1 + 8),
                          !.x1 = Wrap(@ + StubStep),
                          !.pc = "stp"]

\* line 95: stp x4, x5, [x2]
Stp ==
    /\ StubInsn("stp")
    /\ cpu' = [cpu EXCEPT !.mem = [@ EXCEPT ![Wrap(cpu.x2) \div 8] = cpu.x4,
                                            ![Wrap(cpu.x2 + 8) \div 8] = cpu.x5],
                          !.iters = @ + 1,
                          !.pc = "dc"]

\* line 96: dc cvau, x2
DcCvau ==
    /\ StubInsn("dc")
    /\ cpu' = [cpu EXCEPT !.dc = @ \cup {cpu.x2}, !.pc = "ic"]

\* line 97: ic ivau, x2
IcIvau ==
    /\ StubInsn("ic")
    /\ cpu' = [cpu EXCEPT !.ic = @ \cup {cpu.x2}, !.pc = "add"]

\* line 98: add x2, x2, #8
AddX2 ==
    /\ StubInsn("add")
    /\ cpu' = [cpu EXCEPT !.x2 = Wrap(@ + StubStep), !.pc = "sub"]

\* line 99: sub x3, x3, #8
SubX3 ==
    /\ StubInsn("sub")
    /\ cpu' = [cpu EXCEPT !.x3 = Wrap(@ - StubStep), !.pc = "cbnz"]

\* line 100
Cbnz ==
    /\ StubInsn("cbnz")
    /\ cpu' = [cpu EXCEPT !.pc = CbnzTarget(cpu.x3)]

\* line 102: ldr x1, ={entry}
LdrEntry ==
    /\ StubInsn("ldr")
    /\ cpu' = [cpu EXCEPT !.x1 = cpu.entry, !.pc = "br"]

\* line 103: br x1
Br ==
    /\ StubInsn("br")
    /\ cpu' = [cpu EXCEPT !.target = cpu.x1, !.pc = "entered"]

Init == InitChainload \/ InitRunGuest \/ InitStub

Next ==
    \/ LoadMachO \/ PlanLayout \/ Malloc \/ WriteImage \/ CleanImage
    \/ CopySepfw \/ AdjustADT \/ WriteRvbar \/ PushADT
    \/ BuildBootArgs \/ WriteBootArgs \/ AssembleStub
    \/ WriteStub \/ CleanStub \/ InvalStub
    \/ MmuShutdown \/ Call \/ Reload \/ Nop
    \/ GuestSetup \/ RunScript \/ RunCommand \/ RunShell \/ HvStart
    \/ Ldp \/ Stp \/ DcCvau \/ IcIvau \/ AddX2 \/ SubX3 \/ Cbnz \/ LdrEntry \/ Br

Spec == Init /\ [][Next]_vars

(***************************************************************************)
(* Properties.                                                             *)
(***************************************************************************)
Ops(op) == {i \in 1..Len(trace) : trace[i].op = op}

Count(op) == Cardinality(Ops(op))

Handoffs == Ops("call") \cup Ops("reload")

Chainload == prog = "chainload"

Planned == Chainload /\ pc \notin {"load", "plan"}

\* r is v rounded up to a multiple of a
IsAlignUp(r, v, a) == r % a = 0 /\ r >= v /\ r - v < a

\* C1: once the layout is planned, the image is at offset 0, the firmware at
\* the image length rounded up to the alignment, the boot arguments at the
\* firmware offset plus the firmware length rounded up, and the region ends
\* 0x4000 bytes later; the three byte ranges follow each other without
\* overlap and every offset is a multiple of the alignment.
C1_LayoutPlan ==
    Planned =>
        /\ IsAlignUp(host.sepfw_off, host.image_len, host.align)
        /\ IsAlignUp(host.bootargs_off - host.sepfw_off, host.sepfw_length, host.align)
        /\ host.image_size = host.bootargs_off + bootargs_size
        /\ 0 + host.image_len <= host.sepfw_off
        /\ host.sepfw_off + host.sepfw_length <= host.bootargs_off
        /\ host.bootargs_off + bootargs_size <= host.image_size
        /\ host.sepfw_off % host.align = 0
        /\ host.bootargs_off % host.align = 0
        /\ (host.sepfw_length = 0 => host.bootargs_off = host.sepfw_off)

C1_Witness ==
    /\ Planned
    /\ host.align = 4 /\ host.image_len = 3 /\ host.sepfw_length = 2

\* C2: a stub entered with x3 = 0 never executes the copy (ldp/stp) and
\* ends in the branch to the entry address.
C2_ZeroRemainingCopiesNothing ==
    (prog = "stub" /\ cpu.count0 = 0) =>
        /\ cpu.iters = 0
        /\ cpu.mem = MemAsStaged
        /\ cpu.pc = "entered" => cpu.target = cpu.entry

\* C3: the handoff is one call or one reload, chosen by args.call; the call
\* asks for a reboot; mmu_shutdown is issued only with args.call, once and
\* before the call; nop follows a handoff that returned.
C3_Handoff ==
    Chainload =>
        /\ Cardinality(Handoffs) <= 1
        /\ pc \in {"nop", "done"} => Cardinality(Handoffs) = 1
        /\ \A i \in Ops("call") : args.call /\ trace[i].reboot
        /\ \A i \in Ops("reload") : ~args.call
        /\ Count("mmu_shutdown") <= 1
        /\ \A i \in Ops("mmu_shutdown") :
             args.call /\ \A j \in Handoffs : i < j
        /\ \A j \in Ops("call") : \E i \in Ops("mmu_shutdown") : i < j
        /\ \A i \in Ops("nop") :
             i > 1 /\ (i - 1) \in Handoffs /\ trace[i - 1].res = "ok"

C3_Witness ==
    /\ Chainload /\ pc = "done" /\ args.call
    /\ Count("mmu_shutdown") = 1 /\ Count("call") = 1 /\ Count("nop") = 1

\* C4: with args.xnu the two memory-map entries are set relative to one
\* base B, SEPFW = (B + sepfw_off, sepfw_length) and
\* BootArgs = (B + bootargs_off, 0x4000), and the address in the BootArgs
\* entry is the first argument handed to the stub.
C4_OneRegionBase ==
    (Chainload /\ args.xnu /\ Count("adt_set_BootArgs") > 0) =>
        LET B == host.adt.SEPFW[1] - host.sepfw_off
        IN  /\ host.adt.SEPFW = <<B + host.sepfw_off, host.sepfw_length>>
            /\ host.adt.BootArgs = <<B + host.bootargs_off, bootargs_size>>
            /\ \A i \in Handoffs : trace[i].x[2] = host.adt.BootArgs[1]

Failed(i) == trace[i].res # "ok"

Secondary == {k \in 1..Len(host.cpus) : k >= 2}

WritesTo(k) == {i \in Ops("write64") : trace[i].x[1] = host.cpus[k]}

AllPatched ==
    /\ Count("adt_set_SEPFW") = 1 /\ Count("adt_set_BootArgs") = 1
    /\ \A k \in Secondary : \E i \in WritesTo(k) : ~Failed(i)
    /\ Count("push_adt") = 1

NothingPatched ==
    /\ Count("adt_set_SEPFW") = 0 /\ Count("adt_set_BootArgs") = 0
    /\ Count("write64") = 0 /\ Count("push_adt") = 0
    /\ host.adt = AdtAsBooted(host.sepfw_start, host.sepfw_length)
    /\ dev.adt = <<>>

\* C5 as claimed: a finished or failed run with args.xnu has made all the
\* patches and the one push, or none of them, and a failed write64 is the
\* last thing the run does.
C5_AllOrNothing ==
    (Chainload /\ args.xnu /\ pc \in {"done", "error"}) =>
        /\ AllPatched \/ NothingPatched
        /\ \A i \in Ops("write64") : Failed(i) => i = Len(trace)

\* C5: a failed write64 ends the run: it is the last operation issued, no
\* push follows and the device's tree is as booted; what was patched before
\* it stays patched (both memory-map edits in the host's tree, one write64 to
\* every earlier secondary core).  The tree on the device changes only by a
\* push that succeeded, of which there is at most one, made after both edits
\* and a successful write64 to every secondary core.
C5_FailedWriteIsFatal ==
    (Chainload /\ args.xnu) =>
        /\ \A i \in Ops("write64") :
             Failed(i) =>
               /\ i = Len(trace) /\ pc = "error"
               /\ Count("push_adt") = 0 /\ dev.adt = <<>>
               /\ host.adt = AdtPatch(host)
               /\ Count("adt_set_SEPFW") = 1 /\ Count("adt_set_BootArgs") = 1
               /\ \A k \in Secondary :
                    k < host.i => \E j \in WritesTo(k) : ~Failed(j) /\ j < i
        /\ Len(dev.adt) <= 1
        /\ Len(dev.adt) = Cardinality({i \in Ops("push_adt") : ~Failed(i)})
        /\ dev.adt # <<>> => (AllPatched /\ dev.adt[1] = AdtPatch(host))
        /\ pc = "done" => (AllPatched /\ Len(dev.adt) = 1)

C5_Witness ==
    /\ Chainload /\ args.xnu /\ pc = "error"
    /\ Len(trace) > 0 /\ trace[Len(trace)].op = "write64" /\ Failed(Len(trace))
    /\ host.i = 3 /\ Len(host.cpus) = 3

\* C6: the top_of_kernel_data written to the device is new_base + image_size
\* with args.xnu, and otherwise the larger of that and the template's value.
C6_TopOfKernelData ==
    (Chainload /\ dev.bootargs # <<>>) =>
        LET written == dev.bootargs[1].ba.top_of_kernel_data
            end     == host.new_base + host.image_size
            before  == host.uba.top_of_kernel_data
        IN  /\ args.xnu => written = end
            /\ ~args.xnu => /\ written >= before
                            /\ written >= end
                            /\ written \in {before, end}

C6_Witness ==
    /\ Chainload /\ ~args.xnu /\ dev.bootargs # <<>>
    /\ host.uba.top_of_kernel_data > host.new_base + host.image_size
    /\ dev.bootargs[1].ba.top_of_kernel_data = host.uba.top_of_kernel_data

\* C7: every write64 goes to the register of a core other than the first and
\* carries entry with its low 12 bits cleared; no core is written twice, and
\* when the loop is over every core but the first has been written once.
C7_SecondaryRvbar ==
    Chainload =>
        /\ \A i \in Ops("write64") :
             /\ args.xnu
             /\ \E k \in Secondary : trace[i].x[1] = host.cpus[k]
             /\ trace[i].x[1] # host.cpus[1]
             /\ trace[i].x[2] % (PageMask + 1) = 0
             /\ trace[i].x[2] <= host.entry
             /\ host.entry - trace[i].x[2] <= PageMask
        /\ \A k \in Secondary : Cardinality(WritesTo(k)) <= 1
        /\ (args.xnu /\ (pc = "push_adt" \/ Count("push_adt") > 0)) =>
             \A k \in Secondary : Cardinality(WritesTo(k)) = 1

C7_Witness ==
    /\ Chainload /\ pc = "push_adt"
    /\ Len(host.cpus) = 3 /\ Count("write64") = 2
    /\ host.entry % (PageMask + 1) # 0

RunGuest == prog = "run_guest"

IsItem(e) == e.op \in {"run_script", "run_code"}

\* the scripts and commands attempted so far, in the order of the attempts
Items == SelectSeq(trace, IsItem)

\* the k-th item of the batch: the scripts in order, then the commands
BatchItem(k) ==
    IF k <= args.script THEN <<"run_script", k>> ELSE <<"run_code", k - args.script>>

BatchSize == args.script + args.command

SomeItemFailed == \E k \in 1..Len(Items) : Items[k].res # "ok"

Terminals == Ops("run_shell") \cup Ops("hv_start")

\* C8: the items attempted are the scripts in order and then the commands in
\* order, each once, whatever failed before; when the batch is over all of
\* them have been attempted; from the first failure on args.shell is set, and
\* a terminal step taken after a failure is the shell.
C8_BatchGoesOn ==
    RunGuest =>
        /\ Len(Items) <= BatchSize
        /\ \A k \in 1..Len(Items) :
             <<Items[k].op, Items[k].x[1]>> = BatchItem(k)
        /\ (pc = "final" \/ Terminals # {}) => Len(Items) = BatchSize
        /\ SomeItemFailed => host.shell
        /\ (SomeItemFailed /\ Terminals # {}) =>
             (Count("run_shell") = 1 /\ Count("hv_start") = 0)

C8_Witness ==
    /\ RunGuest /\ pc = "done" /\ ~args.shell
    /\ Len(Items) = 2 /\ args.script = 1 /\ args.command = 1
    /\ Items[1].res = "error" /\ Items[2].res = "ok"
    /\ Count("run_shell") = 1

\* C9: after the batch exactly one of run_shell and hv.start can be taken,
\* at most one of them is ever taken, neither is taken before the batch is
\* over, and hv.start is the one taken exactly when no item failed and -S
\* was not given.
C9_OneTerminalStep ==
    RunGuest =>
        /\ Cardinality(Terminals) <= 1
        /\ pc = "final" => ((ENABLED RunShell) # (ENABLED HvStart))
        /\ pc = "final" => Terminals = {}
        /\ pc = "done" => Cardinality(Terminals) = 1
        /\ \A i \in Terminals : i = Len(trace) /\ Len(Items) = BatchSize
        /\ Count("hv_start") = 1 => (~SomeItemFailed /\ ~args.shell)
        /\ Count("run_shell") = 1 => (SomeItemFailed \/ args.shell)

C9_Witness ==
    /\ RunGuest /\ pc = "done" /\ Count("hv_start") = 1
    /\ Len(Items) = 2 /\ args.script = 1 /\ args.command = 1

\* C10: an mmu_shutdown that fails with ProxyCommandError is followed by the
\* call, with the arguments of lines 119; one that fails with another error
\* is the last operation of the run: no call, reload or nop is issued.
C10_MmuShutdownBestEffort ==
    Chainload =>
        \A i \in Ops("mmu_shutdown") :
            /\ trace[i].res = "ProxyCommandError" =>
                 /\ i = Len(trace) => pc = "call"
                 /\ i < Len(trace) =>
                      /\ trace[i + 1].op = "call"
                      /\ trace[i + 1].x = HandoffArgs(host)
                      /\ trace[i + 1].reboot
            /\ trace[i].res = "error" =>
                 /\ i = Len(trace) /\ pc = "error"
                 /\ Handoffs = {} /\ Count("nop") = 0

C10_Witness ==
    /\ Chainload /\ pc = "done"
    /\ \E i \in Ops("mmu_shutdown") :
         /\ trace[i].res = "ProxyCommandError"
         /\ trace[i + 1].op = "call" /\ trace[i + 1].res = "ok"

BootArgsWritten == Chainload /\ dev.bootargs # <<>>

\* the index of the first character of the k-th token in the joined line
RECURSIVE TokenStart(_, _)
TokenStart(toks, k) ==
    IF k = 1 THEN 1 ELSE TokenStart(toks, k - 1) + Len(toks[k - 1]) + 1

\* s is the tokens in order with one blank between neighbours
JoinedBySingleSpaces(s, toks) ==
    /\ Len(s) = TokenStart(toks, Len(toks)) + Len(toks[Len(toks)]) - 1
    /\ \A k \in 1..Len(toks) :
         /\ SubSeq(s, TokenStart(toks, k), TokenStart(toks, k) + Len(toks[k]) - 1) = toks[k]
         /\ k > 1 => s[TokenStart(toks, k) - 1] = " "

\* -v stands in s as a word of its own, between blanks or the ends of s
HasWordV(s) ==
    \E p \in 1..(Len(s) - 1) :
        /\ s[p] = "-" /\ s[p + 1] = "v"
        /\ (p = 1 \/ s[p - 1] = " ")
        /\ (p + 1 = Len(s) \/ s[p + 2] = " ")

HasTokenV(toks) == \E k \in 1..Len(toks) : toks[k] = TokV

\* C11 as claimed: with boot_args given, the display flag written is 0 when
\* one of the tokens is -v and 1 otherwise, and the command line written is
\* the tokens joined by single blanks.
C11_FlagByToken ==
    (BootArgsWritten /\ Len(args.boot_args) > 0) =>
        /\ dev.bootargs[1].video.display = (IF HasTokenV(args.boot_args) THEN 0 ELSE 1)
        /\ JoinedBySingleSpaces(dev.bootargs[1].ba.cmdline, args.boot_args)

\* C11: with boot_args given, the display flag written is 0 when -v is one
\* of the blank-separated words of the joined command line and 1 otherwise,
\* and the command line written is the tokens joined by single blanks.
C11_FlagByWord ==
    (BootArgsWritten /\ Len(args.boot_args) > 0) =>
        /\ dev.bootargs[1].video.display =
             (IF HasWordV(dev.bootargs[1].ba.cmdline) THEN 0 ELSE 1)
        /\ JoinedBySingleSpaces(dev.bootargs[1].ba.cmdline, args.boot_args)

C11_Witness ==
    /\ BootArgsWritten /\ args.boot_args = <<TokXV>>
    /\ dev.bootargs[1].video.display = 0
    /\ ~HasTokenV(args.boot_args)

PastBootArgsWrite ==
    pc \in {"asm_stub", "write_stub", "clean_stub", "inval_stub", "mmu_shutdown",
            "call", "reload", "nop", "done"}

\* C12: without args.xnu no memcpy8, no memory-map edit, no write64 and no
\* push_adt is ever issued and the device's tree is as booted; the firmware
\* is (0, 0), so its segment is empty and the boot arguments start where the
\* firmware would; the 0x4000 bytes of boot arguments are still part of the
\* region, and they are written at image_addr + bootargs_off.
C12_NoXnuNoPatch ==
    (Chainload /\ ~args.xnu) =>
        /\ Count("memcpy8") = 0
        /\ Count("adt_set_SEPFW") = 0 /\ Count("adt_set_BootArgs") = 0
        /\ Count("write64") = 0 /\ Count("push_adt") = 0
        /\ dev.adt = <<>>
        /\ pc \notin {"copy_sepfw", "adjust_adt", "write_rvbar", "push_adt"}
        /\ Planned =>
             /\ host.sepfw_start = 0 /\ host.sepfw_length = 0
             /\ host.bootargs_off = host.sepfw_off
             /\ host.image_size = host.bootargs_off + bootargs_size
        /\ PastBootArgsWrite =>
             /\ Len(dev.bootargs) = 1
             /\ \E i \in Ops("writemem") :
                  /\ trace[i].x = <<host.image_addr + host.bootargs_off>>
                  /\ trace[i].res = "ok"

C12_Witness ==
    /\ Chainload /\ ~args.xnu /\ pc = "done"
    /\ host.image_len = 3 /\ host.align = 4
    /\ Len(dev.bootargs) = 1

BootArgsBuilt == Chainload /\ host.video_read.display # Undef

\* C13: once tba is built, u.ba is as it was read from the device: its own
\* fields have the template's values and the video object it refers to
\* still holds the display flag that was read.
C13_TemplateUntouched ==
    BootArgsBuilt =>
        /\ host.uba = BootArgsTemplate(host.uba.top_of_kernel_data)
        /\ host.ba_video.display = host.video_read.display

AdtEdits == Ops("adt_set_SEPFW") \cup Ops("adt_set_BootArgs")

PastPush == pc \in {"build_ba", "write_ba"} \/ PastBootArgsWrite

\* C14: with args.xnu there is at most one push_adt, and exactly one that
\* succeeded once the script is past line 64; it comes after both memory-map
\* edits and after a write64 to every secondary core, the last one included;
\* every writemem and the handoff come after it, and no memory-map edit and
\* no write64 comes after it.
C14_PushOnceAfterPatches ==
    (Chainload /\ args.xnu) =>
        /\ Count("push_adt") <= 1
        /\ PastPush => \E p \in Ops("push_adt") : ~Failed(p)
        /\ \A p \in Ops("push_adt") :
             /\ \E e \in Ops("adt_set_SEPFW") : e < p
             /\ \E e \in Ops("adt_set_BootArgs") : e < p
             /\ \A e \in AdtEdits : e < p
             /\ \A k \in Secondary : \E w \in WritesTo(k) : w < p /\ ~Failed(w)
             /\ \A w \in Ops("write64") : w < p
             /\ \A m \in Ops("writemem") : p < m
             /\ \A h \in Handoffs : p < h
        /\ \A m \in Ops("writemem") \cup Handoffs : \E p \in Ops("push_adt") : p < m

C14_Witness ==
    /\ Chainload /\ args.xnu /\ pc = "done"
    /\ Len(host.cpus) = 3 /\ Count("push_adt") = 1 /\ Count("write64") = 2

\* where operation op with arguments x was issued and returned
Done(op, x) == {i \in 1..Len(trace) : trace[i] = Ev(op, x, "ok")}

Before(A, B) == A # {} /\ B # {} /\ \A a \in A, b \in B : a < b

\* C15: a call or reload is issued only to the stub's address, and only
\* after these have returned, in this order: the image write, dc_cvau over
\* the image, the boot-args write, the stub write, dc_cvau over the whole
\* stub and ic_ivau over the whole stub.
C15_StagedBeforeHandoff ==
    Chainload =>
        \A h \in Handoffs :
            LET image  == <<host.image_addr, host.image_len>>
                stub   == <<host.stub.addr, host.stub.len>>
                wimage == Done("compressed_writemem", image)
                cimage == Done("dc_cvau", image)
                wargs  == Done("writemem", <<host.image_addr + host.bootargs_off>>)
                wstub  == Done("writemem", stub)
                cstub  == Done("dc_cvau", stub)
                istub  == Done("ic_ivau", stub)
            IN  /\ trace[h].x[1] = host.stub.addr
                /\ host.stub.len = StubLen
                /\ Before(wimage, cimage)
                /\ Before(cimage, wargs)
                /\ Before(wargs, wstub)
                /\ Before(wstub, cstub)
                /\ Before(cstub, istub)
                /\ Before(istub, {h})

C15_Witness ==
    /\ Chainload /\ pc = "nop" /\ Count("reload") = 1
    /\ Done("ic_ivau", <<host.stub.addr, StubLen>>) # {}

Stub == prog = "stub"

Disjoint(a, b, n) == a + n <= b \/ b + n <= a

\* the stub is entered with a positive count that is a multiple of 8 and
\* with source and destination ranges that lie in memory and do not overlap
CopyCase ==
    /\ Stub
    /\ cpu.count0 > 0 /\ cpu.count0 % StubStep = 0
    /\ cpu.src0 + cpu.count0 <= WordSpace /\ cpu.dst0 + cpu.count0 <= WordSpace
    /\ Disjoint(cpu.src0, cpu.dst0, cpu.count0)

LoopLeft == cpu.pc \in {"ldr", "br", "entered"}

\* number of times sub x3, x3, #8 has run
Decrements == IF cpu.pc \in {"dc", "ic", "add", "sub"} THEN cpu.iters - 1 ELSE cpu.iters

InRegion(a, n) ==
    host.image_addr <= a /\ a + n <= host.image_addr + host.image_size

\* C17: everything the script writes into staging memory lies in the block
\* of image_size bytes that u.malloc returned: the image, the copied
\* firmware, the boot arguments (whose segment is bootargs_size long) and
\* the stub.
C17_WritesInsideRegion ==
    Chainload =>
        /\ \A i \in Ops("compressed_writemem") : InRegion(trace[i].x[1], trace[i].x[2])
        /\ \A i \in Ops("memcpy8") : InRegion(trace[i].x[1], trace[i].x[3])
        /\ \A i \in Ops("writemem") :
             IF Len(trace[i].x) = 1
             THEN InRegion(trace[i].x[1], bootargs_size)
             ELSE InRegion(trace[i].x[1], trace[i].x[2])

DstWords == {Wrap(cpu.dst0 + 8 * k) \div 8 : k \in 0..(cpu.count0 \div 8 - 1)}

\* C18: entered with a positive count and disjoint ranges, the stub loads
\* only from [src, src+count) and stores only to [dst, dst+count): a pass
\* loads its 16 bytes inside the source range and stores them inside the
\* destination range, and every word outside the destination range keeps
\* the value it had.
C18_StubStaysInRange ==
    CopyCase =>
        /\ cpu.pc = "stp" =>
             /\ cpu.src0 <= cpu.x1 - StubStep
             /\ cpu.x1 - StubStep + 16 <= cpu.src0 + cpu.count0
        /\ cpu.pc = "dc" =>
             /\ cpu.dst0 <= cpu.x2
             /\ cpu.x2 + 16 <= cpu.dst0 + cpu.count0
        /\ \A w \in DOMAIN cpu.mem :
             w \notin DstWords => cpu.mem[w] = MemAsStaged[w]

====
